---- MODULE Spec2Model ----
(***************************************************************************)
(* Model of src/dashboard.py: the NASA near-earth-object feed client       *)
(* fetch_asteroid_data (memoized by st.cache_data) and one render pass of  *)
(* run_dashboard.                                                          *)
(*                                                                         *)
(* Numbers are fixed point.  Diameters are thousandths of a metre, so      *)
(* 1000 is 1 m and 2718 is e m.  Logarithms and the impact radius are      *)
(* ten-thousandths.  Speeds and distances are whole units.                 *)
(***************************************************************************)
EXTENDS Integers, Sequences, FiniteSets, TLC

VARIABLES
    today,          \* datetime.now() as a day number
    cache,          \* st.cache_data store of fetch_asteroid_data: args -> entry
    httpCount,      \* requests.get calls issued in this process, per args
    failed,         \* history: args whose fetch ended in a transport failure
    callArgs,       \* the (start_date, end_date) of the last pass
    net,            \* what the network did in the last pass
    feed,           \* near_earth_objects received in the last pass
    fetched,        \* what fetch_asteroid_data gave the last pass
    exc,            \* the exception that left run_dashboard, or "none"
    rendered,       \* the streamlit elements the last pass emitted, in order
    metrics,        \* the values of the three metric tiles
    options,        \* the options of the selectbox
    selected,       \* selected_asteroid
    detail,         \* selected_data.values[0] of every column
    logArg,         \* the arguments np.log was applied to
    impact_radius,  \* impact_radius
    marker          \* the marker size given to go.Scattergeo

vars == <<today, cache, httpCount, failed, callArgs, net, feed, fetched,
          exc, rendered, metrics, options, selected, detail, logArg, impact_radius, marker>>

----------------------------------------------------------------------------
(* Bounds *)

MaxRecords == 3
MaxMemoRecords == 1
MaxDay == 1
MaxRequests == 2

----------------------------------------------------------------------------
(* JSON values of the feed.  t is the kind of value: a JSON number, a      *)
(* string holding a decimal numeral, any other string, a boolean, null,    *)
(* or "missing" when the key is absent from its object.                    *)

Num(n) == [t |-> "num", v |-> n]
NumStr(n) == [t |-> "numstr", v |-> n]
Str(id) == [t |-> "str", v |-> id]
Bool(b) == [t |-> "bool", v |-> IF b THEN 1 ELSE 0]
Null == [t |-> "null", v |-> 0]
Missing == [t |-> "missing", v |-> 0]
Unset == [t |-> "unset", v |-> 0]

(* Names and orbiting bodies, as string ids *)
NameA == Str(1)
NameB == Str(2)
Earth == Str(7)
Mars == Str(8)

Approach(kph, km, body) ==
    [kilometers_per_hour |-> kph, kilometers |-> km, orbiting_body |-> body]

Asteroid(name, dmax, cad, haz) ==
    [name |-> name, estimated_diameter_max |-> dmax,
     close_approach_data |-> cad, is_potentially_hazardous_asteroid |-> haz]

Present(items) == [present |-> TRUE, items |-> items]

(* The feed entries the model draws from. *)
OneMetre ==
    Asteroid(NameA, Num(1000), Present(<<Approach(NumStr(40), NumStr(7), Earth)>>), Bool(FALSE))
EMetres ==
    Asteroid(NameA, Num(2718), Present(<<Approach(NumStr(50), NumStr(8), Mars)>>), Bool(TRUE))
HalfMetre ==
    Asteroid(NameB, Num(500), Present(<<Approach(NumStr(60), NumStr(9), Earth)>>), Bool(FALSE))
ZeroMetre ==
    Asteroid(NameB, Num(0), Present(<<Approach(Num(70), NumStr(3), Earth)>>), Bool(TRUE))
BadSpeed ==
    Asteroid(NameA, Num(3000), Present(<<Approach(Str(9), NumStr(5), Earth)>>), Bool(FALSE))
NullDistance ==
    Asteroid(NameB, Num(3000), Present(<<Approach(NumStr(80), Null, Earth)>>), Bool(FALSE))
NoName ==
    Asteroid(Missing, Num(3000), Present(<<Approach(NumStr(80), NumStr(4), Earth)>>), Bool(FALSE))
NoApproach ==
    Asteroid(NameA, Num(3000), Present(<<>>), Bool(FALSE))
NullName ==
    Asteroid(Null, Num(1000), Present(<<Approach(NumStr(90), NumStr(6), Earth)>>), Bool(FALSE))
Negative ==
    Asteroid(NameB, Num(-1000), Present(<<Approach(NumStr(30), NumStr(2), Mars)>>), Bool(FALSE))

Asteroids ==
    {OneMetre, EMetres, HalfMetre, ZeroMetre, BadSpeed, NullDistance, NoName,
     NoApproach, NullName, Negative}

MemoAsteroids == {OneMetre, NullDistance}

(* near_earth_objects: a mapping from two date strings, in the order of    *)
(* the response body, each to its array of entries.                        *)
Dates(entries, k) == <<SubSeq(entries, 1, k), SubSeq(entries, k + 1, Len(entries))>>

NoNeo == [present |-> FALSE, dates |-> <<>>]
Neo(dates) == [present |-> TRUE, dates |-> dates]

(* What requests.get and raise_for_status can give besides a feed: an      *)
(* exception, an error status, a body without near_earth_objects.          *)
Feedless ==
    {[status |-> "network_error", neo |-> NoNeo],
     [status |-> "http_error", neo |-> NoNeo],
     [status |-> "ok", neo |-> NoNeo]}

----------------------------------------------------------------------------
(* fetch_asteroid_data *)

NoRow ==
    [name |-> Unset, diameter_m |-> 0, speed_kmh |-> 0, distance_km |-> 0,
     orbiting_body |-> Unset, hazardous |-> Unset]

Raise(e) == [exc |-> e, val |-> 0]
Value(n) == [exc |-> "none", val |-> n]

(* float(x): a number, a numeral string or a boolean converts; another     *)
(* string is a ValueError; None is a TypeError.                            *)
Float(x) ==
    IF x.t \in {"num", "numstr", "bool"} THEN Value(x.v)
    ELSE IF x.t = "str" THEN Raise("ValueError")
    ELSE Raise("TypeError")

(* d[key] on the feed's objects *)
Subscript(x) == IF x.t = "missing" THEN Raise("KeyError") ELSE Value(x.v)

(* close_approach_data[0][...][...], then float() *)
ApproachNumber(a, field) ==
    LET cad == a.close_approach_data IN
    IF ~cad.present THEN Raise("KeyError")
    ELSE IF cad.items = <<>> THEN Raise("IndexError")
    ELSE IF Subscript(cad.items[1][field]).exc # "none" THEN Raise("KeyError")
    ELSE Float(cad.items[1][field])

ApproachBody(a) ==
    LET cad == a.close_approach_data IN
    IF ~cad.present THEN Raise("KeyError")
    ELSE IF cad.items = <<>> THEN Raise("IndexError")
    ELSE Subscript(cad.items[1].orbiting_body)

(* The dict literal of one entry: its values are evaluated in the order    *)
(* written and the first exception raised is the one that leaves it.       *)
RowOf(a) ==
    LET name == Subscript(a.name)
        diam == Subscript(a.estimated_diameter_max)
        speed == ApproachNumber(a, "kilometers_per_hour")
        dist == ApproachNumber(a, "kilometers")
        body == ApproachBody(a)
        haz == Subscript(a.is_potentially_hazardous_asteroid)
        steps == <<name, diam, speed, dist, body, haz>>
        bad == {i \in 1..Len(steps) : steps[i].exc # "none"}
    IN  IF bad # {}
        THEN [exc |-> steps[CHOOSE i \in bad : \A j \in bad : i <= j].exc, row |-> NoRow]
        ELSE [exc |-> "none",
              row |-> [name |-> a.name,
                       diameter_m |-> diam.val,
                       speed_kmh |-> speed.val,
                       distance_km |-> dist.val,
                       orbiting_body |-> a.close_approach_data.items[1].orbiting_body,
                       hazardous |-> a.is_potentially_hazardous_asteroid]]

(* except (KeyError, IndexError, ValueError): continue *)
Skipped == {"KeyError", "IndexError", "ValueError"}

RECURSIVE Flatten(_)
(* Flatten, were only the first date read *)
FlattenFirstOnly(dates) == IF dates = <<>> THEN <<>> ELSE Head(dates)
(* for date in ...: for asteroid in ...[date] *)
Flatten(dates) ==
    IF dates = <<>> THEN <<>> ELSE Head(dates) \o Flatten(Tail(dates))

RECURSIVE Collect(_, _)
Collect(entries, asteroids) ==
    IF entries = <<>> THEN [exc |-> "none", rows |-> asteroids, err |-> FALSE]
    ELSE LET r == RowOf(Head(entries)) IN
         IF r.exc = "none" THEN Collect(Tail(entries), Append(asteroids, r.row))
         ELSE IF r.exc \in Skipped THEN Collect(Tail(entries), asteroids)
         ELSE [exc |-> r.exc, rows |-> <<>>, err |-> FALSE]

(* TransportFailure, were the except clause not to match *)
TransportFailureUncaught == [exc |-> "RequestException", rows |-> <<>>, err |-> FALSE]
(* except requests.exceptions.RequestException: st.error; return pd.DataFrame() *)
TransportFailure == [exc |-> "none", rows |-> <<>>, err |-> TRUE]

(* The body of fetch_asteroid_data for one response. *)
FetchBody(resp) ==
    IF resp.status # "ok" THEN TransportFailure
    ELSE IF ~resp.neo.present THEN Collect(<<>>, <<>>)
    ELSE Collect(Flatten(resp.neo.dates), <<>>)

----------------------------------------------------------------------------
(* st.cache_data *)

Args(day) == <<day, day + 7>>
ArgsSet == {Args(d) : d \in 0..MaxDay}

NoEntry == [hit |-> FALSE, rows |-> <<>>, err |-> FALSE]

(* Store, were an empty result not kept *)
StoreNonEmpty(c, a, res) ==
    IF res.exc = "none" /\ res.rows # <<>>
    THEN [c EXCEPT ![a] = [hit |-> TRUE, rows |-> res.rows, err |-> res.err]]
    ELSE c
(* The decorator keeps what the function returned; a call that raised     *)
(* leaves nothing behind.                                                  *)
Store(c, a, res) ==
    IF res.exc = "none"
    THEN [c EXCEPT ![a] = [hit |-> TRUE, rows |-> res.rows, err |-> res.err]]
    ELSE c

Cached(c, a) == [exc |-> "none", rows |-> c[a].rows, err |-> c[a].err]

----------------------------------------------------------------------------
(* run_dashboard *)

(* a / b to the nearest whole number, for a >= 0 and b > 0 *)
Div(a, b) == (2 * a + b) \div (2 * b)

RECURSIVE Series(_, _, _)
Series(pow, z2, k) ==
    IF pow = 0 THEN 0
    ELSE Div(pow, 2 * k + 1) + Series(Div(pow * z2, 10000), z2, k + 1)

(* np.log of a diameter in thousandths, in ten-thousandths:                *)
(* ln x = 2 atanh((x - 1) / (x + 1)).  Of zero it is -inf and of a         *)
(* negative number nan, both given here as one value far below any other.  *)
Log(d) ==
    IF d <= 0 THEN -100000000
    ELSE LET num == IF d >= 1000 THEN d - 1000 ELSE 1000 - d
             z == Div(num * 10000, d + 1000)
             s == 2 * Series(z, Div(z * z, 10000), 0)
         IN  IF d >= 1000 THEN s ELSE -s

(* ImpactRadius, were the guard diameter >= 0 *)
ImpactRadiusUnguarded(diameter) ==
    IF diameter >= 0
    THEN [radius |-> Log(diameter) * 10, logged |-> <<diameter>>]
    ELSE [radius |-> 0, logged |-> <<>>]
(* np.log(diameter) * 10 if diameter > 0 else 0 *)
ImpactRadius(diameter) ==
    IF diameter > 0
    THEN [radius |-> Log(diameter) * 10, logged |-> <<diameter>>]
    ELSE [radius |-> 0, logged |-> <<>>]

(* IsEmpty, were the early return never taken *)
NeverEmpty(rows) == FALSE
(* asteroid_df.empty *)
IsEmpty(rows) == Len(rows) = 0

RECURSIVE Total(_, _)
Total(rows, column) ==
    IF rows = <<>> THEN 0 ELSE Head(rows)[column] + Total(Tail(rows), column)

(* Series.mean(), as the sum and the count it divides by; over no rows it  *)
(* is nan.                                                                 *)
Mean(rows, column) == [sum |-> Total(rows, column), n |-> Len(rows)]

NoMetrics == [total |-> 0, diameter |-> [sum |-> 0, n |-> 0], speed |-> [sum |-> 0, n |-> 0]]

RECURSIVE Unique(_, _)
(* asteroid_df['name'].unique(): the distinct names by first appearance *)
Unique(rows, seen) ==
    IF rows = <<>> THEN seen
    ELSE IF \E i \in 1..Len(seen) : seen[i] = Head(rows).name
         THEN Unique(Tail(rows), seen)
         ELSE Unique(Tail(rows), Append(seen, Head(rows).name))

(* The elementwise == of a column and a value: a name that is None         *)
(* compares unequal to everything, None included.                          *)
NameEq(x, y) == x.t # "null" /\ y.t # "null" /\ x = y

RECURSIVE Filter(_, _)
(* asteroid_df[asteroid_df['name'] == selected_asteroid] *)
Filter(rows, name) ==
    IF rows = <<>> THEN <<>>
    ELSE IF NameEq(Head(rows).name, name)
         THEN <<Head(rows)>> \o Filter(Tail(rows), name)
         ELSE Filter(Tail(rows), name)

(* st.selectbox: one of the options, None when there is none to offer *)
Selectbox(opts, choice) == IF opts = <<>> THEN Null ELSE opts[choice]

Choices(rows) ==
    LET n == Len(Unique(rows, <<>>)) IN 1..(IF n = 0 THEN 1 ELSE n)

NoMarker == [set |-> FALSE, size |-> 0]

Blank ==
    [exc |-> "none", rendered |-> <<>>, metrics |-> NoMetrics, options |-> <<>>,
     selected |-> Unset, detail |-> NoRow, logArg |-> <<>>, impact_radius |-> 0,
     marker |-> NoMarker]

Header == <<"title">>
MetricTiles ==
    <<"rule", "subheader_metrics", "metric_total", "metric_diameter", "metric_speed">>
Selection == <<"subheader_select", "selectbox", "details_heading">>
Details ==
    <<"detail_diameter", "detail_speed", "detail_distance", "detail_body",
      "detail_hazardous">>

(* One pass of run_dashboard over what fetch_asteroid_data gave it, with   *)
(* the user's choice in the selectbox.                                     *)
Render(res, choice) ==
    IF res.exc # "none" THEN [Blank EXCEPT !.exc = res.exc]
    ELSE
    LET rows == res.rows
        top == (IF res.err THEN <<"error">> ELSE <<>>) \o Header
    IN
    IF IsEmpty(rows) THEN [Blank EXCEPT !.rendered = top \o <<"warning">>]
    ELSE
    LET tiles == [total |-> Len(rows), diameter |-> Mean(rows, "diameter_m"),
                  speed |-> Mean(rows, "speed_kmh")]
        opts == Unique(rows, <<>>)
        selected_asteroid == Selectbox(opts, choice)
        selected_data == Filter(rows, selected_asteroid)
        shown == [Blank EXCEPT !.metrics = tiles, !.options = opts,
                               !.selected = selected_asteroid,
                               !.rendered = top \o MetricTiles \o Selection]
    IN
    IF selected_data = <<>> THEN [shown EXCEPT !.exc = "IndexError"]
    ELSE
    LET first == selected_data[1]
        ir == ImpactRadius(first.diameter_m)
        traced == [shown EXCEPT !.detail = first, !.logArg = ir.logged,
                                !.impact_radius = ir.radius,
                                !.marker = [set |-> TRUE, size |-> ir.radius],
                                !.rendered = @ \o Details]
    IN
    (* go.Scattergeo takes a marker size of 0 or more, a ValueError otherwise *)
    IF ir.radius < 0 THEN [traced EXCEPT !.exc = "ValueError"]
    ELSE [traced EXCEPT !.rendered = @ \o <<"plot", "caption">>]

----------------------------------------------------------------------------
(* The process *)

NoResult == [exc |-> "none", rows |-> <<>>, err |-> FALSE]

Init ==
    /\ today = 0
    /\ cache = [a \in ArgsSet |-> NoEntry]
    /\ httpCount = [a \in ArgsSet |-> 0]
    /\ failed = {}
    /\ callArgs = Args(0)
    /\ net = "idle"
    /\ feed = NoNeo
    /\ fetched = NoResult
    /\ exc = "none"
    /\ rendered = <<>>
    /\ metrics = NoMetrics
    /\ options = <<>>
    /\ selected = Unset
    /\ detail = NoRow
    /\ logArg = <<>>
    /\ impact_radius = 0
    /\ marker = NoMarker

(* What a pass leaves on the page. *)
Show(res, choice) ==
    LET out == Render(res, choice) IN
    /\ fetched' = res
    /\ exc' = out.exc
    /\ rendered' = out.rendered
    /\ metrics' = out.metrics
    /\ options' = out.options
    /\ selected' = out.selected
    /\ detail' = out.detail
    /\ logArg' = out.logArg
    /\ impact_radius' = out.impact_radius
    /\ marker' = out.marker

(* The call of fetch_asteroid_data that st.cache_data lets through, for   *)
(* the response the request got.                                           *)
Receive(a, resp) ==
    LET res == FetchBody(resp) IN
    /\ httpCount' = [httpCount EXCEPT ![a] = @ + 1]
    /\ cache' = Store(cache, a, res)
    /\ failed' = IF resp.status # "ok" THEN failed \cup {a} ELSE failed
    /\ callArgs' = a
    /\ net' = resp.status
    /\ feed' = resp.neo
    /\ \E choice \in Choices(res.rows) : Show(res, choice)

(* run_dashboard when the cache has nothing for today's window: the        *)
(* request is issued and the body of fetch_asteroid_data runs.  The feed   *)
(* holds up to n entries of S.                                             *)
Miss(S, n) ==
    LET a == Args(today) IN
    /\ ~cache[a].hit
    /\ httpCount[a] < MaxRequests
    /\ \/ \E resp \in Feedless : Receive(a, resp)
       \/ \E len \in 0..n : \E entries \in [1..len -> S] : \E k \in 0..len :
             Receive(a, [status |-> "ok", neo |-> Neo(Dates(entries, k))])
    /\ UNCHANGED today

(* run_dashboard when st.cache_data holds the result for today's window. *)
Hit ==
    LET a == Args(today) IN
    /\ cache[a].hit
    /\ callArgs' = a
    /\ net' = "cached"
    /\ feed' = NoNeo
    /\ \E choice \in Choices(cache[a].rows) : Show(Cached(cache, a), choice)
    /\ UNCHANGED <<today, cache, httpCount, failed>>

(* The first page load of a process, over every feed of the model. *)
FirstLoad == httpCount[Args(today)] = 0 /\ Miss(Asteroids, MaxRecords)

(* A page load that has to fetch, the first or after a fetch that raised. *)
Load == Miss(MemoAsteroids, MaxMemoRecords)

(* A rerun of the script on a user interaction. *)
Rerun == Hit

(* The process ends and a new one starts: the cache is gone. *)
Restart ==
    /\ cache' = [a \in ArgsSet |-> NoEntry]
    /\ httpCount' = [a \in ArgsSet |-> 0]
    /\ failed' = {}
    /\ callArgs' = Args(0)
    /\ net' = "idle"
    /\ feed' = NoNeo
    /\ fetched' = NoResult
    /\ exc' = "none"
    /\ rendered' = <<>>
    /\ metrics' = NoMetrics
    /\ options' = <<>>
    /\ selected' = Unset
    /\ detail' = NoRow
    /\ logArg' = <<>>
    /\ impact_radius' = 0
    /\ marker' = NoMarker
    /\ UNCHANGED today

(* Midnight passes: datetime.now() gives the next day. *)
NextDay == today < MaxDay /\ today' = today + 1 /\
    UNCHANGED <<cache, httpCount, failed, callArgs, net, feed, fetched,
                exc, rendered, metrics, options, selected, detail, logArg,
                impact_radius, marker>>

Next == FirstLoad \/ Rerun \/ Restart

Spec == Init /\ [][Next]_vars

NextMemo == Load \/ Rerun \/ NextDay \/ Restart

SpecMemo == Init /\ [][NextMemo]_vars

----------------------------------------------------------------------------
(* The properties *)

Failures == {"network_error", "http_error"}

(* The entries of the feed received in the last pass, in feed order. *)
Entries == IF feed.present THEN feed.dates[1] \o feed.dates[2] ELSE <<>>

Elements == {rendered[i] : i \in 1..Len(rendered)}

(* A required field of the entry is absent. *)
LacksField(a) ==
    \/ a.name.t = "missing"
    \/ a.estimated_diameter_max.t = "missing"
    \/ a.is_potentially_hazardous_asteroid.t = "missing"
    \/ ~a.close_approach_data.present
    \/ a.close_approach_data.items = <<>>
    \/ \E f \in {"kilometers_per_hour", "kilometers", "orbiting_body"} :
         a.close_approach_data.items[1][f].t = "missing"

Numeric(x) == x.t \in {"num", "numstr"}

(* The velocity or the distance of the entry is not a number. *)
NonNumeric(a) ==
    /\ ~LacksField(a)
    /\ \/ ~Numeric(a.close_approach_data.items[1].kilometers_per_hour)
       \/ ~Numeric(a.close_approach_data.items[1].kilometers)

WellFormed(a) == ~LacksField(a) /\ ~NonNumeric(a)

(* The six fields of a well-formed entry. *)
Plain(a) ==
    [name |-> a.name,
     diameter_m |-> a.estimated_diameter_max.v,
     speed_kmh |-> a.close_approach_data.items[1].kilometers_per_hour.v,
     distance_km |-> a.close_approach_data.items[1].kilometers.v,
     orbiting_body |-> a.close_approach_data.items[1].orbiting_body,
     hazardous |-> a.is_potentially_hazardous_asteroid]

RECURSIVE Kept(_)
Kept(entries) ==
    IF entries = <<>> THEN <<>>
    ELSE IF WellFormed(Head(entries))
         THEN <<Plain(Head(entries))>> \o Kept(Tail(entries))
         ELSE Kept(Tail(entries))

(* C1: when the feed received holds an entry that lacks a required field   *)
(* or whose velocity or distance is not a number, fetch_asteroid_data      *)
(* returns, without raising, exactly the other entries, unchanged and in   *)
(* feed order.                                                             *)
C1_BadRecordsDropped ==
    (net = "ok" /\ \E i \in 1..Len(Entries) : ~WellFormed(Entries[i]))
        => (fetched.exc = "none" /\ fetched.rows = Kept(Entries))

(* C2: a request that ends in a network error or an HTTP error status      *)
(* makes fetch_asteroid_data return an empty collection and raise nothing. *)
C2_TransportFailureEmpty ==
    net \in Failures => (fetched.exc = "none" /\ fetched.rows = <<>>)

C2_Witness ==
    net = "http_error" /\ fetched.rows = <<>> /\ fetched.err /\ exc = "none"

(* C3: no exception leaves a render pass, and a pass over a failed or      *)
(* empty fetch ends in the warning.                                        *)
C3_NoFatalError ==
    net # "idle" =>
        /\ exc = "none"
        /\ (net \in Failures \/ fetched.rows = <<>>) =>
              (rendered # <<>> /\ rendered[Len(rendered)] = "warning")

(* C4: a pass whose fetched collection is empty shows the warning and      *)
(* stops: no metric tile, selection control, detail field or plot is       *)
(* rendered and no mean is computed.                                       *)
C4_EmptyStops ==
    (net # "idle" /\ fetched.exc = "none" /\ fetched.rows = <<>>) =>
        /\ exc = "none"
        /\ rendered # <<>> /\ rendered[Len(rendered)] = "warning"
        /\ Elements \subseteq {"error", "title", "warning"}
        /\ metrics = NoMetrics
        /\ options = <<>>
        /\ ~marker.set

C4_Witness ==
    /\ net = "ok" /\ Len(Entries) = 2 /\ fetched.rows = <<>>
    /\ rendered = <<"title", "warning">>

(* C5: no argument pair has more than one HTTP request issued for it in    *)
(* one process, and a call served again returns the data of the first.     *)
C5_AtMostOneRequest ==
    /\ \A a \in ArgsSet : httpCount[a] <= 1
    /\ net = "cached" => fetched = Cached(cache, callArgs)

(* C6, as stated: when every entry of the feed has all required fields,    *)
(* the collection returned has one row per entry.                          *)
C6_AllFieldsCounted ==
    (net = "ok" /\ \A i \in 1..Len(Entries) :
                      /\ ~LacksField(Entries[i])
                      /\ Entries[i].close_approach_data.items[1].kilometers_per_hour.t # "null"
                      /\ Entries[i].close_approach_data.items[1].kilometers.t # "null")
        => (fetched.exc = "none" /\ Len(fetched.rows) = Len(Entries))

(* C6, amended: when every entry of the feed has all required fields and   *)
(* a numeric velocity and distance, the collection returned has one row    *)
(* per entry, over all dates.                                              *)
C6_WellFormedCounted ==
    (net = "ok" /\ \A i \in 1..Len(Entries) : WellFormed(Entries[i]))
        => (fetched.exc = "none" /\ Len(fetched.rows) = Len(Entries))

C6_Witness ==
    /\ net = "ok" /\ feed.present
    /\ Len(feed.dates[1]) = 1 /\ Len(feed.dates[2]) = 2
    /\ \A i \in 1..Len(Entries) : WellFormed(Entries[i])
    /\ Len(fetched.rows) = 3

(* C7: once the selection control is offered, some record carries the      *)
(* selected name and the detail view shows the first such record.          *)
C7_FirstMatchShown ==
    "selectbox" \in Elements =>
        LET rows == fetched.rows
            hits == {i \in 1..Len(rows) : rows[i].name = selected}
        IN  /\ hits # {}
            /\ \E i \in hits : (\A j \in hits : i <= j) /\ detail = rows[i]

(* C8: the radius is 10 ln(diameter) for a positive diameter and 0         *)
(* otherwise; no logarithm of a value of 0 or less is taken; a diameter of *)
(* 1 m gives 0 and one of 2.718 m gives 10 to within 0.01.                 *)
C8_RadiusFormula ==
    marker.set =>
        LET d == detail.diameter_m IN
        /\ d <= 0 => (impact_radius = 0 /\ logArg = <<>>)
        /\ d > 0 => (logArg = <<d>> /\ impact_radius = 10 * Log(d))
        /\ d = 1000 => impact_radius = 0
        /\ d = 2718 => (impact_radius > 99900 /\ impact_radius < 100100)
        /\ \A i \in 1..Len(logArg) : logArg[i] > 0

C8_Witness ==
    /\ marker.set /\ detail.diameter_m = 0 /\ impact_radius = 0
    /\ logArg = <<>> /\ "plot" \in Elements

(* C9: once a fetch for a date range has ended in a transport failure,     *)
(* every later pass for that range in the process takes the empty          *)
(* collection from the cache and issues no request.                        *)
C9_FailureMemoized ==
    [][(Args(today) \in failed /\ (Load \/ Rerun)) =>
          /\ net' = "cached"
          /\ httpCount' = httpCount
          /\ fetched'.exc = "none" /\ fetched'.rows = <<>>]_vars

C9_Witness ==
    /\ Args(today) \in failed /\ net = "cached" /\ fetched.rows = <<>>
    /\ httpCount[Args(today)] = 1

(* C10: the marker size given to the plot is never negative. *)
C10_MarkerSizeNonNegative == marker.set => marker.size >= 0

====
